---------------------------- MODULE Spec2Model ----------------------------
(***************************************************************************)
(* A model of the retrieval -> rerank -> balance pipeline of the SHL       *)
(* assessment recommender: VectorStore (vector_store.py), the              *)
(* AssessmentRetriever (retriever.py), the configuration they read        *)
(* (config.py), the embedder (embeddings.py), the JSON helpers (utils.py)  *)
(* and the handlers of the service (main.py).                              *)
(*                                                                         *)
(* Python values are represented as follows.                               *)
(*   list            a sequence                                            *)
(*   Optional[int]   a sequence of length <= 1 (<< >> is None)             *)
(*   dict            a record; an absent key is the value Missing          *)
(*   bool or str     a record [bool |-> b] or [str |-> s], where the code  *)
(*                   may hold either in one attribute                      *)
(*   float score     an integer (only order and equality are used)         *)
(***************************************************************************)
EXTENDS Integers, Sequences, FiniteSets, TLC

VARIABLES
    config, \* the process configuration (config.py), read at start-up
    disk,   \* the index bundle under config.FAISS_INDEX_PATH
    store,  \* the VectorStore object
    retr,   \* the AssessmentRetriever object
    inp,    \* the argument list of the function under study
    out,    \* what the last call returned (with the locals it computed)
    succeeded \* history: a build_index or a load of the store has returned

vars == <<config, disk, store, retr, inp, out, succeeded>>

(***************************************************************************)
(* Bounds of the model.                                                    *)
(***************************************************************************)
\* longest candidate list handed to _balance_domains
MaxLen == 5

\* longest candidate list handed to rerank
MaxCands == 3

\* longest text (in tokens) the generative model answers with
MaxRespLen == 5

\* largest score the cross-encoder gives (scores are 0..MaxCrossScore)
MaxCrossScore == 2

\* longest catalog handed to build_index
MaxCatalog == 3

\* largest top_k and top_n a caller passes
MaxTop == 2

\* most ratings in an answer of the generative model during retrieve
MaxRatings == 1

\* the longest candidate list, and the longest rating list, of the
\* specification of the generative scorer's prompt
MaxPromptCands == 12

MaxPromptRatings == 12

\* the number of /recommend requests the service receives
NumRequests == 2

(***************************************************************************)
(* Python helpers.                                                         *)
(***************************************************************************)
Min(a, b) == IF a < b THEN a ELSE b

Max(a, b) == IF a > b THEN a ELSE b

\* s[:n] for n >= 0
PyPrefix(s, n) == SubSeq(s, 1, Min(n, Len(s)))

\* s[n:] for n >= 0
PySuffix(s, n) == SubSeq(s, Min(n, Len(s)) + 1, Len(s))

\* the value of an absent dict key
Missing == <<"<missing>">>

\* out before any call
NoCall == [op |-> "none"]

\* Python's None, where an object may stand
PyNone == [none |-> TRUE]

\* inp where no argument list is under study
NoInput == << >>

(***************************************************************************)
(* The catalog records the model draws from.  test_type is the record's    *)
(* list of category codes; record 3 carries a behavioral and a technical   *)
(* code, record 4 has no test_type key, record 6 an empty list, record 7   *)
(* a code that is neither technical nor behavioral.                        *)
(***************************************************************************)
Records ==
    { [id |-> 1, test_type |-> <<"K">>],
      [id |-> 2, test_type |-> <<"B">>],
      [id |-> 3, test_type |-> <<"S", "P">>],
      [id |-> 4, test_type |-> Missing],
      [id |-> 5, test_type |-> <<"S">>],
      [id |-> 6, test_type |-> << >>],
      [id |-> 7, test_type |-> <<"A">>] }

\* the catalog records with the k smallest ids, in id order
FirstRecords(k) == [i \in 1..k |-> CHOOSE r \in Records : r.id = i]

\* every list of at most n elements of S
SeqsUpTo(S, n) == UNION { [1..k -> S] : k \in 0..n }

(***************************************************************************)
(* AssessmentRetriever._balance_domains                                    *)
(***************************************************************************)
\* assessment.get('test_type', [])
GetTestTypes(assessment) ==
    IF assessment.test_type = Missing THEN << >> ELSE assessment.test_type

\* any(t in codes for t in test_types)
AnyIn(test_types, codes) == \E i \in DOMAIN test_types : test_types[i] \in codes

\* CategorizeOne with the two tests in the other order
CategorizeOne_BehavioralFirst(b, assessment) ==
    LET test_types == GetTestTypes(assessment) IN
    IF AnyIn(test_types, {"B", "S"})
    THEN [b EXCEPT !.behavioral = Append(@, assessment)]
    ELSE IF AnyIn(test_types, {"K", "P"})
         THEN [b EXCEPT !.technical = Append(@, assessment)]
         ELSE [b EXCEPT !.other = Append(@, assessment)]

\* one iteration of the categorising loop: append to exactly one bucket
CategorizeOne(b, assessment) ==
    LET test_types == GetTestTypes(assessment) IN
    IF AnyIn(test_types, {"K", "P"})
    THEN [b EXCEPT !.technical = Append(@, assessment)]
    ELSE IF AnyIn(test_types, {"B", "S"})
         THEN [b EXCEPT !.behavioral = Append(@, assessment)]
         ELSE [b EXCEPT !.other = Append(@, assessment)]

RECURSIVE CategorizeLoop(_, _, _)
CategorizeLoop(assessments, i, b) ==
    IF i > Len(assessments) THEN b
    ELSE CategorizeLoop(assessments, i + 1, CategorizeOne(b, assessments[i]))

\* the three buckets after the loop
Categorize(assessments) ==
    CategorizeLoop(assessments, 1,
                   [technical |-> << >>, behavioral |-> << >>, other |-> << >>])

\* TargetTechnical rounding to nearest instead of truncating
TargetTechnical_Rounded(n) == (7 * n + 5) \div 10

\* int(len(assessments) * 0.7): the double product truncated.  It equals
\* (7 * n) \div 10 for every n < 90 (at n = 90 the double is 62.99999999999999).
TargetTechnical(n) == (7 * n) \div 10

TargetBehavioral(n) == n - TargetTechnical(n)

\* balanced after the two quota-limited extends
QuotaPicks(b, n) ==
    PyPrefix(b.technical, TargetTechnical(n)) \o PyPrefix(b.behavioral, TargetBehavioral(n))

\* FillOther with the test off by one
FillOther_OffByOne(balanced, b, n) ==
    LET remaining == n - Len(balanced) IN
    IF remaining > 1 THEN balanced \o PyPrefix(b.other, remaining) ELSE balanced

\* "Fill remaining with other"
FillOther(balanced, b, n) ==
    LET remaining == n - Len(balanced) IN
    IF remaining > 0 THEN balanced \o PyPrefix(b.other, remaining) ELSE balanced

\* FillLeftover without the fill
FillLeftover_Dropped(balanced, b, n) == balanced

\* FillLeftover extending with the whole buckets, not what the quotas left
FillLeftover_WholeBuckets(balanced, b, n) ==
    IF Len(balanced) < n
    THEN balanced \o b.technical \o b.behavioral
    ELSE balanced

\* "If we don't have enough": what the quotas left behind
FillLeftover(balanced, b, n) ==
    IF Len(balanced) < n
    THEN balanced \o PySuffix(b.technical, TargetTechnical(n))
                  \o PySuffix(b.behavioral, TargetBehavioral(n))
    ELSE balanced

balance_domains(assessments) ==
    LET n == Len(assessments)
        b == Categorize(assessments)
    IN  PyPrefix(FillLeftover(FillOther(QuotaPicks(b, n), b, n), b, n), n)

(***************************************************************************)
(* Configuration and AssessmentRetriever.__init__                          *)
(***************************************************************************)
\* os.getenv("GEMINI_API_KEY", ""): unset, or some credential
ApiKeys == {"", "secret"}

Configs == [GEMINI_API_KEY : ApiKeys]

\* Python truthiness of a string
Truthy(str) == str # ""

\* the object after __init__: the generative scorer is used only with a
\* credential, the cross-encoder is loaded only when it is the scorer in use
NewRetriever(use_reranker, use_llm_reranking, cfg) ==
    LET llm == use_llm_reranking /\ Truthy(cfg.GEMINI_API_KEY) IN
    [use_reranker |-> use_reranker,
     use_llm_reranking |-> llm,
     reranker |-> use_reranker /\ ~llm]

(***************************************************************************)
(* Scores.  A float is kept as a fraction num/den with den > 0: the        *)
(* cross-encoder's scores and the uniform 1.0 have den = 1, a normalised   *)
(* rating is rating/max_score.                                             *)
(***************************************************************************)
Score(num, den) == [num |-> num, den |-> den]

One == Score(1, 1)

ScoreLess(a, b) == a.num * b.den < b.num * a.den

ScoreEq(a, b) == a.num * b.den = b.num * a.den

\* [1.0] * n
Ones(n) == [i \in 1..n |-> One]

(***************************************************************************)
(* sorted(range(len(scores)), key=lambda i: scores[i], reverse=True):      *)
(* Python's sort is stable, also with reverse=True, so equal keys keep     *)
(* their index order.  Insertion of index i behind every index whose key   *)
(* is not smaller computes the same list.                                  *)
(***************************************************************************)
\* a sort that puts an index before the indices of equal key (what sorting
\* ascending and reversing the list gives)
RECURSIVE KeepBefore_TiesReversed(_, _, _, _)
KeepBefore_TiesReversed(keys, sorted, i, k) ==
    IF k > Len(sorted) \/ ~ScoreLess(keys[i], keys[sorted[k]]) THEN k - 1
    ELSE KeepBefore_TiesReversed(keys, sorted, i, k + 1)

\* the number of leading indices of sorted whose key is >= the key of i
RECURSIVE KeepBefore(_, _, _, _)
KeepBefore(keys, sorted, i, k) ==
    IF k > Len(sorted) \/ ScoreLess(keys[sorted[k]], keys[i]) THEN k - 1
    ELSE KeepBefore(keys, sorted, i, k + 1)

InsertIndex(keys, sorted, i) ==
    LET k == KeepBefore(keys, sorted, i, 1) IN
    SubSeq(sorted, 1, k) \o <<i>> \o SubSeq(sorted, k + 1, Len(sorted))

RECURSIVE SortLoop(_, _, _)
SortLoop(keys, sorted, i) ==
    IF i > Len(keys) THEN sorted
    ELSE SortLoop(keys, InsertIndex(keys, sorted, i), i + 1)

SortedIndices(keys) == SortLoop(keys, << >>, 1)

\* [xs[i] for i in sorted_indices]
Pick(xs, indices) == [k \in 1..Len(indices) |-> xs[indices[k]]]

(***************************************************************************)
(* AssessmentRetriever._rerank_with_cross_encoder.  predicted is what      *)
(* self.reranker.predict(pairs) gives: one integer score per pair, or the  *)
(* exception it raised.                                                    *)
(***************************************************************************)
Returned(candidates, scores) ==
    [raised |-> FALSE, candidates |-> candidates, scores |-> scores]

Raised == [raised |-> TRUE, candidates |-> << >>, scores |-> << >>]

rerank_with_cross_encoder(candidates, predicted) ==
    IF predicted.raises THEN Raised
    ELSE LET scores == [i \in 1..Len(candidates) |-> Score(predicted.scores[i], 1)]
             sorted_indices == SortedIndices(scores)
         IN  Returned(Pick(candidates, sorted_indices), Pick(scores, sorted_indices))

(***************************************************************************)
(* The text of the generative model's answer is a sequence of tokens: one  *)
(* token is one character.                                                 *)
(***************************************************************************)
Digits == {"0", "1"}

Tokens == Digits \cup {"[", "]", ",", " ", "x"}

DigitValue(t) == IF t = "0" THEN 0 ELSE 1

\* the characters of the class [\d,\s]
InClass(t) == t \in Digits \cup {",", " "}

\* the index just behind the longest run of class characters starting at j
RECURSIVE RunEnd(_, _)
RunEnd(text, j) ==
    IF j <= Len(text) /\ InClass(text[j]) THEN RunEnd(text, j + 1) ELSE j

\* does r'\[[\d,\s]+\]' match at position i?  The class holds neither bracket,
\* so the greedy run is the only candidate.
MatchesAt(text, i) ==
    /\ text[i] = "["
    /\ LET e == RunEnd(text, i + 1) IN
         e > i + 1 /\ e <= Len(text) /\ text[e] = "]"

NoMatch == [found |-> FALSE, inner |-> << >>]

\* re.search(r'\[[\d,\s]+\]', score_text): the leftmost match.  inner is
\* match.group() without its two brackets.
RECURSIVE SearchFrom(_, _)
SearchFrom(text, i) ==
    IF i > Len(text) THEN NoMatch
    ELSE IF MatchesAt(text, i)
         THEN [found |-> TRUE, inner |-> SubSeq(text, i + 1, RunEnd(text, i + 1) - 1)]
         ELSE SearchFrom(text, i + 1)

ReSearch(text) == SearchFrom(text, 1)

(***************************************************************************)
(* json.loads on "[" inner "]" where inner holds only digits, commas and   *)
(* blanks: a JSON array of integers.  A number has no leading zero, blanks *)
(* may surround numbers, a comma must stand between two numbers.  phase is *)
(*   "open"   behind "[": a number or "]" may follow                       *)
(*   "num"    inside a number (cur its value, zero whether it is "0")      *)
(*   "after"  behind a number: a comma or "]" may follow                   *)
(*   "comma"  behind a comma: a number must follow                         *)
(***************************************************************************)
JsonError == [ok |-> FALSE, value |-> << >>]

RECURSIVE JsonArray(_, _, _, _, _, _)
JsonArray(inner, i, phase, cur, zero, acc) ==
    IF i > Len(inner)
    THEN CASE phase = "open" -> [ok |-> TRUE, value |-> acc]
           [] phase = "num" -> [ok |-> TRUE, value |-> Append(acc, cur)]
           [] phase = "after" -> [ok |-> TRUE, value |-> acc]
           [] OTHER -> JsonError
    ELSE LET t == inner[i] IN
         CASE t \in Digits ->
                CASE phase \in {"open", "comma"} ->
                       JsonArray(inner, i + 1, "num", DigitValue(t), t = "0", acc)
                  [] phase = "num" /\ ~zero ->
                       JsonArray(inner, i + 1, "num", 10 * cur + DigitValue(t), FALSE, acc)
                  [] OTHER -> JsonError
           [] t = " " ->
                IF phase = "num"
                THEN JsonArray(inner, i + 1, "after", 0, FALSE, Append(acc, cur))
                ELSE JsonArray(inner, i + 1, phase, cur, zero, acc)
           [] t = "," ->
                CASE phase = "num" ->
                       JsonArray(inner, i + 1, "comma", 0, FALSE, Append(acc, cur))
                  [] phase = "after" ->
                       JsonArray(inner, i + 1, "comma", 0, FALSE, acc)
                  [] OTHER -> JsonError
           [] OTHER -> JsonError

JsonLoads(inner) == JsonArray(inner, 1, "open", 0, FALSE, << >>)

(***************************************************************************)
(* AssessmentRetriever._rerank_with_llm.  response is what                 *)
(* self.llm_model.generate_content(prompt) gives: a text, or the exception *)
(* raised by the call or by reading response.text.                         *)
(***************************************************************************)
\* max(scores)
RECURSIVE MaxOf(_)
MaxOf(scores) ==
    IF Len(scores) = 1 THEN scores[1] ELSE Max(scores[1], MaxOf(Tail(scores)))

\* "Fallback to original order"
Fallback(candidates) == Returned(candidates, Ones(Len(candidates)))

\* the if match: branch with the division by a zero maximum escaping the
\* except clause
ScoreAndSort_ZeroDivisionEscapes(candidates, inner) ==
    LET loaded == JsonLoads(inner) IN
    IF ~loaded.ok THEN Fallback(candidates)
    ELSE LET scores == PyPrefix(loaded.value, Len(candidates))
             max_score == IF scores # << >> THEN MaxOf(scores) ELSE 1
         IN  IF max_score = 0 THEN Raised
             ELSE LET normalized == [i \in 1..Len(scores) |-> Score(scores[i], max_score)]
                      sorted_indices == SortedIndices(normalized)
                  IN  Returned(Pick(candidates, sorted_indices),
                               Pick(normalized, sorted_indices))

\* the body of the if match: branch; a raise in it lands in the except clause
ScoreAndSort(candidates, inner) ==
    LET loaded == JsonLoads(inner) IN
    IF ~loaded.ok THEN Fallback(candidates)
    ELSE LET scores == PyPrefix(loaded.value, Len(candidates))
             max_score == IF scores # << >> THEN MaxOf(scores) ELSE 1
         IN  IF max_score = 0 THEN Fallback(candidates)
             ELSE LET normalized == [i \in 1..Len(scores) |-> Score(scores[i], max_score)]
                      sorted_indices == SortedIndices(normalized)
                  IN  Returned(Pick(candidates, sorted_indices),
                               Pick(normalized, sorted_indices))

rerank_with_llm(candidates, response) ==
    IF response.raises THEN Fallback(candidates)
    ELSE LET match == ReSearch(response.text) IN
         IF match.found THEN ScoreAndSort(candidates, match.inner)
         ELSE Fallback(candidates)

(***************************************************************************)
(* AssessmentRetriever.rerank.  scorer holds what the two backends would   *)
(* answer: scorer.predicted for the cross-encoder, scorer.response for the *)
(* generative model.                                                       *)
(***************************************************************************)
rerank(r, candidates, scorer) ==
    IF r.use_llm_reranking THEN rerank_with_llm(candidates, scorer.response)
    ELSE IF r.reranker THEN rerank_with_cross_encoder(candidates, scorer.predicted)
         ELSE Returned(candidates, Ones(Len(candidates)))

\* what the cross-encoder may answer for n pairs, with scores in 0..hi
Predictions(n, hi) ==
    { [raises |-> FALSE, scores |-> sc] : sc \in [1..n -> 0..hi] }
        \cup { [raises |-> TRUE, scores |-> << >>] }

NoPrediction == [raises |-> FALSE, scores |-> << >>]

\* what the generative model may answer
Responses ==
    { [raises |-> FALSE, text |-> t] : t \in SeqsUpTo(Tokens, MaxRespLen) }
        \cup { [raises |-> TRUE, text |-> << >>] }

NoResponse == [raises |-> FALSE, text |-> << >>]

\* the backend answers a retriever can meet for n candidates, the generative
\* model answering from responses and the cross-encoder with scores in 0..hi:
\* only the backend that rerank calls is asked
Scorers(r, n, responses, hi) ==
    IF r.use_llm_reranking
    THEN { [predicted |-> NoPrediction, response |-> resp] : resp \in responses }
    ELSE IF r.reranker
         THEN { [predicted |-> p, response |-> NoResponse] : p \in Predictions(n, hi) }
         ELSE { [predicted |-> NoPrediction, response |-> NoResponse] }

NoScorer == [predicted |-> NoPrediction, response |-> NoResponse]

(***************************************************************************)
(* Embeddings.  A vector is kept as its dimension and its direction: unit  *)
(* vectors of three directions (e1, e2 and n1 = -e1) and the zero vector.  *)
(***************************************************************************)
\* VectorStore.__init__'s default dimension, the dimension of all-MiniLM-L6-v2
MiniLMDimension == 384

\* "Gemini embedding dimension"
GeminiDimension == 768

Vec(dim, dir) == [dim |-> dim, dir |-> dir]

\* the inner product of two vectors of one dimension
InnerProduct(a, b) ==
    IF a.dir = "zero" \/ b.dir = "zero" THEN 0
    ELSE IF a.dir = b.dir THEN 1
    ELSE IF {a.dir, b.dir} = {"e1", "n1"} THEN -1
    ELSE 0

\* the direction the embedding model gives the text of a catalog record
\* (format_assessment(a)): a function of the text
RecordDir(assessment) ==
    CASE assessment.id % 3 = 1 -> "e1"
      [] assessment.id % 3 = 2 -> "e2"
      [] OTHER -> "n1"

\* the query texts of the model, and the direction the embedding model gives
Queries == {"q1", "q2"}

QueryDir(query) == IF query = "q1" THEN "e2" ELSE "n1"

(***************************************************************************)
(* EmbeddingGenerator.__init__ (the model load succeeding)                 *)
(***************************************************************************)
\* config.EMBEDDING_MODEL
DefaultModel == "sentence-transformers/all-MiniLM-L6-v2"

\* Python values that are a bool or a str
PyBool(b) == [bool |-> b]

PyStr(str) == [str |-> str]

PyTruthy(v) == IF "bool" \in DOMAIN v THEN v.bool ELSE Truthy(v.str)

\* "a and b": a when a is falsy, b otherwise
PyAnd(a, b) == IF PyTruthy(a) THEN b ELSE a

\* self.use_gemini = use_gemini and config.GEMINI_API_KEY: the argument when
\* it is falsy, the configured key otherwise
NewEmbeddingGenerator(model_name, use_gemini, cfg) ==
    LET gemini == PyAnd(use_gemini, PyStr(cfg.GEMINI_API_KEY)) IN
    [use_gemini |-> gemini,
     model_name |-> IF Truthy(model_name) THEN model_name ELSE DefaultModel,
     dimension |-> IF PyTruthy(gemini) THEN GeminiDimension ELSE MiniLMDimension]

(***************************************************************************)
(* EmbeddingGenerator.encode on a list of texts and encode_query.  backend *)
(* says how the embedding backend behaves during the call:                 *)
(*   backend.raises  the sentence-transformer model raises                 *)
(*   backend.failed  the positions of the texts for which the remote API   *)
(*                   raises (position 1 for a query)                       *)
(***************************************************************************)
Embedded(vectors) == [raised |-> FALSE, vectors |-> vectors]

EmbedRaised == [raised |-> TRUE, vectors |-> << >>]

\* _encode_gemini: the zero vector where the API failed.  np.linalg.norm with
\* axis=1 raises on the array of an empty list.
encode_gemini(gen, dirs, backend) ==
    IF dirs = << >> THEN EmbedRaised
    ELSE Embedded([i \in 1..Len(dirs) |->
                      IF i \in backend.failed THEN Vec(gen.dimension, "zero")
                      ELSE Vec(GeminiDimension, dirs[i])])

\* _encode_sentence_transformer
encode_sentence_transformer(gen, dirs, backend) ==
    IF backend.raises THEN EmbedRaised
    ELSE Embedded([i \in 1..Len(dirs) |-> Vec(gen.dimension, dirs[i])])

encode(gen, dirs, backend) ==
    IF PyTruthy(gen.use_gemini) THEN encode_gemini(gen, dirs, backend)
    ELSE encode_sentence_transformer(gen, dirs, backend)

encode_query(gen, query, backend) ==
    IF PyTruthy(gen.use_gemini)
    THEN IF 1 \in backend.failed
         THEN Embedded(<<Vec(gen.dimension, "zero")>>)
         ELSE Embedded(<<Vec(GeminiDimension, QueryDir(query))>>)
    ELSE encode(gen, <<QueryDir(query)>>, backend)

\* how the backend may behave while n texts are embedded: the remote API
\* fails for no text, for the first one or for all of them
Backends(gen, n) ==
    IF PyTruthy(gen.use_gemini)
    THEN { [raises |-> FALSE, failed |-> f] : f \in {{}, {1}, 1..n} }
    ELSE { [raises |-> r, failed |-> {}] : r \in BOOLEAN }

(***************************************************************************)
(* faiss.IndexFlatIP                                                       *)
(***************************************************************************)
\* faiss.IndexFlatIP(d) after add(vectors)
FlatIndex(d, vectors) == [d |-> d, vectors |-> vectors]

ntotal(index) == Len(index.vectors)

\* what search pads with when k exceeds ntotal: label -1, the lowest distance
PadLabel == 0 - 1

PadDistance == Score(0 - 1000, 1)

\* index.search(x, k) for one query vector x: the labels (0-based) and inner
\* products of the k best vectors, best first, equal products in the order
\* of the index; a query of another dimension and k <= 0 are refused
faiss_search(index, x, k) ==
    IF x.dim # index.d \/ k <= 0
    THEN [raised |-> TRUE, labels |-> << >>, distances |-> << >>]
    ELSE LET products == [i \in 1..ntotal(index) |->
                             Score(InnerProduct(index.vectors[i], x), 1)]
             best == PyPrefix(SortedIndices(products), k)
         IN  [raised |-> FALSE,
              labels |-> [j \in 1..k |-> IF j <= Len(best) THEN best[j] - 1 ELSE PadLabel],
              distances |-> [j \in 1..k |->
                                IF j <= Len(best) THEN products[best[j]] ELSE PadDistance]]

(***************************************************************************)
(* VectorStore                                                             *)
(***************************************************************************)
\* VectorStore()
NewVectorStore ==
    [dimension |-> MiniLMDimension,
     index |-> PyNone,
     assessments |-> << >>,
     embedding_generator |-> PyNone]

\* the outcome of a call that changes the store: whether it raised, and the
\* object as the call left it
Left(raised, st) == [raised |-> raised, store |-> st]

(***************************************************************************)
(* VectorStore.build_index(assessments, embedding_generator).  given is    *)
(* the generator passed in (PyNone for the default); ctor_raises says      *)
(* whether EmbeddingGenerator() fails to load its model.                   *)
(***************************************************************************)
build_index(st, assessments, given, ctor_raises, backend, cfg) ==
    LET s1 == [st EXCEPT !.assessments = assessments] IN
    IF given = PyNone /\ ctor_raises THEN Left(TRUE, s1)
    ELSE LET gen == IF given = PyNone THEN NewEmbeddingGenerator("", PyBool(FALSE), cfg) ELSE given
             s2 == [s1 EXCEPT !.embedding_generator = gen, !.dimension = gen.dimension]
             texts == [i \in 1..Len(assessments) |-> RecordDir(assessments[i])]
             embeddings == encode(gen, texts, backend)
         IN  IF embeddings.raised THEN Left(TRUE, s2)
             \* index.add needs a two-dimensional array; the array of no
             \* embedding has one dimension
             ELSE IF embeddings.vectors = << >> THEN Left(TRUE, s2)
             ELSE Left(FALSE, [s2 EXCEPT !.index = FlatIndex(s2.dimension, embeddings.vectors)])

(***************************************************************************)
(* VectorStore.search(query, top_k)                                        *)
(***************************************************************************)
SearchRaised(error) ==
    [raised |-> TRUE, error |-> error, results |-> << >>, scores |-> << >>]

\* assessments[idx] for a label idx that passed the test idx < len(assessments)
PyItem(xs, idx) == IF idx >= 0 THEN xs[idx + 1] ELSE xs[Len(xs) + idx + 1]

\* the labels of the result loop that pass its test
Kept(st, labels) == SelectSeq([j \in 1..Len(labels) |-> j],
                              LAMBDA j : labels[j] < Len(st.assessments))

\* search's k: min(top_k, self.index.ntotal)
SearchK(top_k, index) == Min(top_k, ntotal(index))

\* a search that drops the records it returns from the store
search_leaves_Consumed(st) == [st EXCEPT !.assessments = << >>]

\* the store as search leaves it: search reads self.index, self.assessments
\* and self.embedding_generator and assigns no attribute, whether it returns
\* or raises
search_leaves(st) == st

\* does search reach line 91 and call the embedder?
SearchEncodes(st) == st.index # PyNone /\ st.embedding_generator # PyNone

search(st, query, top_k, backend) ==
    IF st.index = PyNone THEN SearchRaised("ValueError: Index not built")
    ELSE IF st.embedding_generator = PyNone THEN SearchRaised("AttributeError")
    ELSE LET query_embedding == encode_query(st.embedding_generator, query, backend) IN
         IF query_embedding.raised THEN SearchRaised("embedding backend")
         ELSE LET found == faiss_search(st.index, query_embedding.vectors[1],
                                        SearchK(top_k, st.index))
                  kept == Kept(st, found.labels)
              IN  IF found.raised THEN SearchRaised("faiss")
                  ELSE IF \E j \in DOMAIN kept :
                              found.labels[kept[j]] < 0 - Len(st.assessments)
                       THEN SearchRaised("IndexError")
                  ELSE [raised |-> FALSE, error |-> "",
                        results |-> [j \in 1..Len(kept) |->
                                        PyItem(st.assessments, found.labels[kept[j]])],
                        scores |-> [j \in 1..Len(kept) |-> found.distances[kept[j]]]]

(***************************************************************************)
(* The bundle on disk and VectorStore.load                                 *)
(***************************************************************************)
\* a file that does not exist
NoFile == [nofile |-> TRUE]

Bundle(index, assessments, stored_config) ==
    [index |-> index, assessments |-> assessments, config |-> stored_config]

NoBundle == Bundle(NoFile, NoFile, NoFile)

\* a file that was opened for writing and never written to
EmptyFile == [empty |-> TRUE]

\* json.dump of one record: an object with the keys the dict has, the id a
\* number and test_type an array of strings
JsonObject(assessment) ==
    [key \in {"id"} \cup (IF assessment.test_type = Missing THEN {} ELSE {"test_type"}) |->
        IF key = "id" THEN [number |-> assessment.id]
        ELSE [array |-> [i \in 1..Len(assessment.test_type) |->
                            [string |-> assessment.test_type[i]]]]]

\* json.load of one object: a dict with the keys the object has
PyDict(object) ==
    [id |-> object.id.number,
     test_type |-> IF "test_type" \in DOMAIN object
                   THEN [i \in 1..Len(object.test_type.array) |->
                            object.test_type.array[i].string]
                   ELSE Missing]

\* utils.save_json(data, filepath): the file holds the JSON text of the list
save_json(data) == [json |-> [i \in 1..Len(data) |-> JsonObject(data[i])]]

\* utils.load_json(filepath)
load_json(file) == [i \in 1..Len(file.json) |-> PyDict(file.json[i])]

\* the dict that save pickles into config.pkl and load unpickles: pickle
\* keeps each value with its type
StoredConfig(dimension, model_name, use_gemini) ==
    [dimension |-> dimension, model_name |-> model_name, use_gemini |-> use_gemini]

\* the index file of the first k catalog records
IndexFile(k) ==
    FlatIndex(MiniLMDimension,
              [i \in 1..k |-> Vec(MiniLMDimension, RecordDir(FirstRecords(k)[i]))])

\* the bundles found on disk at start-up: none; the first two records as save
\* wrote them; an index of three vectors beside the metadata of two records
InitialBundles ==
    { NoBundle,
      Bundle(IndexFile(2), save_json(FirstRecords(2)),
             StoredConfig(MiniLMDimension, DefaultModel, PyBool(FALSE))),
      Bundle(IndexFile(3), save_json(FirstRecords(2)),
             StoredConfig(MiniLMDimension, DefaultModel, PyBool(FALSE))) }

\* load(): each attribute is assigned as soon as its file is read, so a
\* failure leaves the attributes assigned before it
load(st, bundle, ctor_raises, cfg) ==
    IF bundle.index = NoFile THEN Left(TRUE, st)
    ELSE LET s1 == [st EXCEPT !.index = bundle.index] IN
         IF bundle.assessments = NoFile THEN Left(TRUE, s1)
         ELSE LET s2 == [s1 EXCEPT !.assessments = load_json(bundle.assessments)] IN
              \* open raises on a missing file, pickle.load on an empty one
              IF bundle.config \in {NoFile, EmptyFile} THEN Left(TRUE, s2)
              ELSE LET s3 == [s2 EXCEPT !.dimension = bundle.config.dimension]
                       gen == NewEmbeddingGenerator(bundle.config.model_name,
                                                    bundle.config.use_gemini, cfg)
                   IN  IF ~PyTruthy(gen.use_gemini) /\ ctor_raises THEN Left(TRUE, s3)
                       ELSE Left(FALSE, [s3 EXCEPT !.embedding_generator = gen])

(***************************************************************************)
(* VectorStore.save(): the three files are written one after the other, so *)
(* a failure leaves the files written before it.  config.pkl is opened for *)
(* writing, and so emptied, before the dict to pickle is built.            *)
(***************************************************************************)
Saved(raised, bundle) == [raised |-> raised, bundle |-> bundle]

save(st, bundle) ==
    \* faiss.write_index refuses None
    IF st.index = PyNone THEN Saved(TRUE, bundle)
    ELSE LET b1 == [bundle EXCEPT !.index = st.index]
             b2 == [b1 EXCEPT !.assessments = save_json(st.assessments)]
         IN  IF st.embedding_generator = PyNone
             THEN Saved(TRUE, [b2 EXCEPT !.config = EmptyFile])
             ELSE Saved(FALSE, [b2 EXCEPT !.config =
                                   StoredConfig(st.dimension,
                                                st.embedding_generator.model_name,
                                                st.embedding_generator.use_gemini)])

(***************************************************************************)
(* The specification of _balance_domains as a pure function: any list of   *)
(* at most MaxLen catalog records (repetitions allowed) is balanced once.  *)
(***************************************************************************)
InitBalance ==
    /\ config = [GEMINI_API_KEY |-> ""]
    /\ disk = NoBundle
    /\ store = NewVectorStore
    /\ retr = NewRetriever(TRUE, FALSE, config)
    /\ inp \in SeqsUpTo(Records, MaxLen)
    /\ out = NoCall
    /\ succeeded = FALSE

Balance ==
    /\ out = NoCall
    /\ out' = [op |-> "balance",
               buckets |-> Categorize(inp),
               result |-> balance_domains(inp),
               again |-> balance_domains(balance_domains(inp))]
    /\ UNCHANGED <<config, disk, store, retr, inp, succeeded>>

NextBalance == Balance

SpecBalance == InitBalance /\ [][NextBalance]_vars

(***************************************************************************)
(* The specification of rerank: a retriever of any of the three strategies *)
(* reranks one list of up to MaxCands distinct candidates, for every       *)
(* answer of its backend.                                                  *)
(***************************************************************************)
InitRerank ==
    /\ config \in Configs
    /\ disk = NoBundle
    /\ store = NewVectorStore
    /\ \E use_reranker, use_llm_reranking \in BOOLEAN :
          retr = NewRetriever(use_reranker, use_llm_reranking, config)
    /\ inp \in { FirstRecords(k) : k \in 0..MaxCands }
    /\ out = NoCall
    /\ succeeded = FALSE

Rerank ==
    /\ out = NoCall
    /\ \E scorer \in Scorers(retr, Len(inp), Responses, MaxCrossScore) :
          out' = [op |-> "rerank", scorer |-> scorer, ret |-> rerank(retr, inp, scorer)]
    /\ UNCHANGED <<config, disk, store, retr, inp, succeeded>>

NextRerank == Rerank

SpecRerank == InitRerank /\ [][NextRerank]_vars

(***************************************************************************)
(* AssessmentRetriever.retrieve(query, top_k, top_n)                       *)
(***************************************************************************)
\* config.TOP_K_RETRIEVAL
TOP_K_RETRIEVAL == 20

\* config.TOP_N_FINAL
TOP_N_FINAL == 10

\* "arg or default" for an Optional[int]: None and 0 are both falsy
OrDefault(arg, default) == IF arg = << >> \/ arg[1] = 0 THEN default ELSE arg[1]

Retrieved(result) == [raised |-> FALSE, result |-> result]

RetrieveRaised == [raised |-> TRUE, result |-> << >>]

\* the store as retrieve leaves it: retrieve touches self.vector_store only
\* by calling search; rerank and _balance_domains build new lists and assign
\* no key of a record
retrieve_leaves(st) == search_leaves(st)

\* the locals candidates and scores of retrieve when line 79 is reached (the
\* empty lists when it is not): what search returned, replaced by what rerank
\* returned only when a scorer is enabled
Staged(r, st, query, top_k, backend, scorer) ==
    LET found == search(st, query, OrDefault(top_k, TOP_K_RETRIEVAL), backend) IN
    IF found.raised \/ found.results = << >> THEN Returned(<< >>, << >>)
    ELSE IF r.use_reranker \/ r.use_llm_reranking
         THEN LET ranked == rerank(r, found.results, scorer) IN
              IF ranked.raised THEN Returned(<< >>, << >>) ELSE ranked
         ELSE Returned(found.results, found.scores)

\* retrieve balancing the reranked candidates before it truncates them
retrieve_BalanceFirst(r, st, query, top_k, top_n, backend, scorer) ==
    LET found == search(st, query, OrDefault(top_k, TOP_K_RETRIEVAL), backend) IN
    IF found.raised THEN RetrieveRaised
    ELSE IF found.results = << >> THEN Retrieved(<< >>)
    ELSE LET ranked == IF r.use_reranker \/ r.use_llm_reranking
                       THEN rerank(r, found.results, scorer)
                       ELSE Returned(found.results, found.scores)
         IN  IF ranked.raised THEN RetrieveRaised
             ELSE Retrieved(PyPrefix(balance_domains(ranked.candidates),
                                     OrDefault(top_n, TOP_N_FINAL)))

retrieve(r, st, query, top_k, top_n, backend, scorer) ==
    LET found == search(st, query, OrDefault(top_k, TOP_K_RETRIEVAL), backend) IN
    IF found.raised THEN RetrieveRaised
    ELSE IF found.results = << >> THEN Retrieved(<< >>)
    ELSE LET ranked == IF r.use_reranker \/ r.use_llm_reranking
                       THEN rerank(r, found.results, scorer)
                       ELSE Returned(found.results, found.scores)
         IN  IF ranked.raised THEN RetrieveRaised
             ELSE Retrieved(balance_domains(
                                PyPrefix(ranked.candidates, OrDefault(top_n, TOP_N_FINAL))))

(***************************************************************************)
(* The inputs of the specification of the pipeline.                        *)
(***************************************************************************)
\* the catalogs handed to build_index: the first k records, k = 0..MaxCatalog
Catalogs == { FirstRecords(k) : k \in 0..MaxCatalog }

\* the generators handed to build_index: none, or one asked to use the
\* remote API
Generators(cfg) == { PyNone, NewEmbeddingGenerator("", PyBool(TRUE), cfg) }

\* how the backend may behave for the store's generator
StoreBackends(st, n) ==
    IF st.embedding_generator = PyNone THEN { [raises |-> FALSE, failed |-> {}] }
    ELSE Backends(st.embedding_generator, n)

\* an Optional[int] argument
OptionalTop == { << >> } \cup { <<v>> : v \in 0..MaxTop }

\* the top_k arguments of retrieve: None, 0 and the largest
OptionalTopK == { << >>, <<0>>, <<MaxTop>> }

\* the answer the prompt asks for: "[r1,r2,...]" (and "[ ]" for no rating)
FormatRatings(ratings) ==
    IF ratings = << >> THEN <<"[", " ", "]">>
    ELSE <<"[">> \o [i \in 1..(2 * Len(ratings) - 1) |->
                       IF i % 2 = 0 THEN ","
                       ELSE IF ratings[(i + 1) \div 2] = 0 THEN "0" ELSE "1"]
               \o <<"]">>

\* what the generative model answers during retrieve: a list of up to
\* MaxRatings ratings, a text without a list, or an exception
RetrieveResponses ==
    { [raises |-> FALSE, text |-> FormatRatings(r)] : r \in SeqsUpTo(0..1, MaxRatings) }
        \cup { [raises |-> FALSE, text |-> <<"x">>], [raises |-> TRUE, text |-> << >>] }

(***************************************************************************)
(* The specification of the pipeline: a fresh VectorStore and a retriever  *)
(* on it; the store is built and loaded, and queried with search and       *)
(* retrieve.  search and retrieve leave every variable but out unchanged,  *)
(* so whatever can follow a query can follow the state before it: the      *)
(* query a run observes is its last step.                                  *)
(***************************************************************************)
Observed == out.op \in {"search", "retrieve"}

Init ==
    /\ config \in Configs
    /\ disk \in InitialBundles
    /\ store = NewVectorStore
    /\ \E use_reranker, use_llm_reranking \in BOOLEAN :
          retr = NewRetriever(use_reranker, use_llm_reranking, config)
    /\ inp = NoInput
    /\ out = NoCall
    /\ succeeded = FALSE

BuildIndex ==
    /\ ~Observed
    /\ \E assessments \in Catalogs, given \in Generators(config), ctor_raises \in BOOLEAN :
        \E backend \in Backends(IF given = PyNone
                                THEN NewEmbeddingGenerator("", PyBool(FALSE), config) ELSE given,
                                Len(assessments)) :
          LET left == build_index(store, assessments, given, ctor_raises, backend, config) IN
          /\ store' = left.store
          /\ out' = [op |-> "build_index", raised |-> left.raised]
          /\ succeeded' = (succeeded \/ ~left.raised)
          /\ UNCHANGED <<config, disk, retr, inp>>

Load ==
    /\ ~Observed
    /\ \E ctor_raises \in BOOLEAN :
          LET left == load(store, disk, ctor_raises, config) IN
          /\ store' = left.store
          /\ out' = [op |-> "load", raised |-> left.raised]
          /\ succeeded' = (succeeded \/ ~left.raised)
          /\ UNCHANGED <<config, disk, retr, inp>>

Search ==
    /\ ~Observed
    /\ \E query \in Queries, top_k \in (0..MaxTop) \cup {TOP_K_RETRIEVAL} :
        \E backend \in StoreBackends(store, 1) :
          /\ out' = [op |-> "search", query |-> query, top_k |-> top_k,
                     backend |-> backend,
                     before |-> store,
                     encoded |-> SearchEncodes(store),
                     ret |-> search(store, query, top_k, backend)]
          /\ store' = search_leaves(store)
          /\ UNCHANGED <<config, disk, retr, inp, succeeded>>

Retrieve ==
    /\ ~Observed
    /\ \E query \in Queries, top_k \in OptionalTopK, top_n \in OptionalTop :
        \E backend \in StoreBackends(store, 1) :
          LET found == search(store, query, OrDefault(top_k, TOP_K_RETRIEVAL), backend) IN
          \E scorer \in Scorers(retr, Len(found.results), RetrieveResponses, 1) :
            /\ out' = [op |-> "retrieve", query |-> query, top_k |-> top_k,
                       top_n |-> top_n, backend |-> backend, scorer |-> scorer,
                       staged |-> Staged(retr, store, query, top_k, backend, scorer),
                       ret |-> retrieve(retr, store, query, top_k, top_n, backend, scorer)]
            /\ store' = retrieve_leaves(store)
            /\ UNCHANGED <<config, disk, retr, inp, succeeded>>

Next == BuildIndex \/ Load \/ Search \/ Retrieve

Spec == Init /\ [][Next]_vars

(***************************************************************************)
(* The specification of EmbeddingGenerator.encode as a function of the     *)
(* batch: a generator of either backend embeds one list of up to MaxTexts  *)
(* texts (a text is known by the direction the model gives it), for every  *)
(* behaviour of the backend.                                               *)
(***************************************************************************)
MaxTexts == 3

TextDirs == {"e1", "e2", "n1"}

\* how the backend may behave during one encode: the sentence-transformer
\* model raises or not; the remote API fails for any set of positions
EncodeBackends(gen, n) ==
    IF PyTruthy(gen.use_gemini)
    THEN { [raises |-> FALSE, failed |-> f] : f \in SUBSET (1..n) }
    ELSE { [raises |-> r, failed |-> {}] : r \in BOOLEAN }

InitEmbed ==
    /\ config \in Configs
    /\ disk = NoBundle
    /\ store = NewVectorStore
    /\ retr = NewRetriever(FALSE, FALSE, config)
    /\ inp \in SeqsUpTo(TextDirs, MaxTexts)
    /\ out = NoCall
    /\ succeeded = FALSE

Encode ==
    /\ out = NoCall
    /\ \E use_gemini \in BOOLEAN :
        \E gen \in { NewEmbeddingGenerator("", PyBool(use_gemini), config) } :
          \E backend \in EncodeBackends(gen, Len(inp)) :
            out' = [op |-> "encode", gen |-> gen, backend |-> backend,
                    ret |-> encode(gen, inp, backend)]
    /\ UNCHANGED <<config, disk, store, retr, inp, succeeded>>

NextEmbed == Encode

SpecEmbed == InitEmbed /\ [][NextEmbed]_vars

(***************************************************************************)
(* The specification of one retrieve call in time.  The call waits for the *)
(* embedding of the query and then for the scores of the candidates.  The  *)
(* sentence-transformer model and the cross-encoder compute in the         *)
(* process; genai.embed_content and generate_content are requests to the   *)
(* remote API, made without a timeout argument, and return when the        *)
(* library returns or raises.  inp is the call's query and how each        *)
(* backend behaves during it: it answers, it raises (a deadline of the     *)
(* library included), or it stays silent.                                  *)
(***************************************************************************)
Behaviours == {"answers", "raises", "silent"}

Calls == [query : Queries, embedder : Behaviours, scorer : Behaviours]

\* the stores a retriever is given: built without failure from the first k
\* records, with the default generator or one asked to use the remote API
BuiltStores(cfg) ==
    { build_index(NewVectorStore, FirstRecords(k), given, FALSE,
                  [raises |-> FALSE, failed |-> {}], cfg).store :
          k \in 1..MaxCatalog, given \in Generators(cfg) }

\* encode_query asks the remote API
RemoteEmbedder(st) == PyTruthy(st.embedding_generator.use_gemini)

\* rerank asks the remote API
RemoteScorer(r) == r.use_llm_reranking

\* the embedding backend as search meets it during the call
CallBackend(st, call) ==
    IF RemoteEmbedder(st)
    THEN [raises |-> FALSE, failed |-> IF call.embedder = "raises" THEN {1} ELSE {}]
    ELSE [raises |-> call.embedder = "raises", failed |-> {}]

\* the scorers rerank may meet during the call
CallScorers(r, n, call) ==
    { sc \in Scorers(r, n, RetrieveResponses, 1) :
          (sc.predicted.raises \/ sc.response.raises) <=> (call.scorer = "raises") }

Idle == [op |-> "call", pc |-> "idle", backend |-> [raises |-> FALSE, failed |-> {}],
         scoring |-> FALSE, ret |-> Retrieved(<< >>)]

InitLive ==
    /\ config \in Configs
    /\ disk = NoBundle
    /\ store \in BuiltStores(config)
    /\ \E use_reranker, use_llm_reranking \in BOOLEAN :
          retr = NewRetriever(use_reranker, use_llm_reranking, config)
    /\ inp \in Calls
    /\ out = Idle
    /\ succeeded = TRUE

\* retrieve is called and reaches encode_query (embeddings.py 112-141).  What
\* the call computes from the answers of its backends is a function of the
\* store, the retriever and those answers; it is worked out here, for the
\* answers inp announces: out.scoring says whether the call will reach the
\* scorer (retriever.py 67-76), out.ret what it returns once it gets there.
CallRetrieve ==
    /\ out.pc = "idle"
    /\ \E backend \in { CallBackend(store, inp) } :
        \E found \in { search(store, inp.query, TOP_K_RETRIEVAL, backend) } :
         \E scoring \in { ~found.raised /\ found.results # << >>
                             /\ (retr.use_reranker \/ retr.use_llm_reranking) } :
          \E scorer \in IF scoring THEN CallScorers(retr, Len(found.results), inp)
                        ELSE { NoScorer } :
            out' = [out EXCEPT !.pc = "embedding", !.backend = backend,
                               !.scoring = scoring,
                               !.ret = retrieve(retr, store, inp.query, << >>, << >>,
                                                backend, scorer)]
    /\ UNCHANGED <<config, disk, store, retr, inp, succeeded>>

\* the embedding call returns or raises (a silent remote API does neither),
\* search finishes, and retrieve either returns or calls the scorer
EmbedReturns ==
    /\ out.pc = "embedding"
    /\ RemoteEmbedder(store) => inp.embedder # "silent"
    /\ out' = [out EXCEPT !.pc = IF out.scoring THEN "scoring" ELSE "returned"]
    /\ UNCHANGED <<config, disk, store, retr, inp, succeeded>>

\* the scorer's call returns or raises (a silent remote API does neither), and
\* retrieve runs to its return
ScoreReturns ==
    /\ out.pc = "scoring"
    /\ RemoteScorer(retr) => inp.scorer # "silent"
    /\ out' = [out EXCEPT !.pc = "returned"]
    /\ UNCHANGED <<config, disk, store, retr, inp, succeeded>>

NextLive == CallRetrieve \/ EmbedReturns \/ ScoreReturns

\* a call that can go on does go on: the interpreter runs the code between
\* two calls of a backend, and a backend that answers or raises does so in
\* the end.  No step lets a call leave a silent backend: the code passes no
\* timeout and sets no deadline.
SpecLive ==
    InitLive /\ [][NextLive]_vars /\ WF_vars(EmbedReturns) /\ WF_vars(ScoreReturns)

(***************************************************************************)
(* The specification of persistence: one store at a time is built, saved   *)
(* and loaded, and the process is restarted, with or without the API key   *)
(* in its environment, while the bundle stays on disk.  inp remembers the  *)
(* store whose save last returned, that is the store the bundle is the     *)
(* image of, and whether that store came straight out of a build_index     *)
(* that returned.                                                          *)
(***************************************************************************)
\* the number of restarts followed
MaxRestarts == 1

NothingSaved == [saved |-> PyNone, built |-> FALSE, restarts |-> 0]

InitPersist ==
    /\ config \in Configs
    /\ disk \in InitialBundles
    /\ store = NewVectorStore
    /\ retr = NewRetriever(FALSE, FALSE, config)
    /\ inp = NothingSaved
    /\ out = NoCall
    /\ succeeded = FALSE

Save ==
    \E saved \in { save(store, disk) } :
        /\ disk' = saved.bundle
        /\ out' = [op |-> "save", raised |-> saved.raised]
        /\ inp' = IF saved.raised THEN inp
                  ELSE [inp EXCEPT !.saved = store,
                                   !.built = (out.op = "build_index" /\ ~out.raised)]
        /\ UNCHANGED <<config, store, retr, succeeded>>

\* the process ends and another starts: a fresh VectorStore, the environment
\* read again
Restart ==
    /\ inp.restarts < MaxRestarts
    /\ inp' = [inp EXCEPT !.restarts = @ + 1]
    /\ config' \in Configs
    /\ store' = NewVectorStore
    /\ retr' = NewRetriever(FALSE, FALSE, config')
    /\ out' = [op |-> "restart"]
    /\ succeeded' = FALSE
    /\ UNCHANGED disk

NextPersist == BuildIndex \/ Save \/ Load \/ Restart

SpecPersist == InitPersist /\ [][NextPersist]_vars

(***************************************************************************)
(* The prompt of _rerank_with_llm and the specification of the generative  *)
(* scorer on long lists: a list of up to MaxPromptCands distinct           *)
(* candidates is reranked once, the model answering with a list of up to   *)
(* MaxPromptRatings ratings, with a text without a list, or failing.       *)
(***************************************************************************)
\* candidates[:10], "Limit to top 10 for LLM"
PromptLimit == 10

\* the candidates enumerated in the prompt
Prompted(candidates) == PyPrefix(candidates, PromptLimit)

\* how many candidates the strategy gives a rating of the model: the length
\* of scores[:len(candidates)] when the sorted result is returned, 0 when
\* the fallback is
RatedCount(candidates, response) ==
    IF response.raises THEN 0
    ELSE LET match == ReSearch(response.text) IN
         IF ~match.found \/ ~JsonLoads(match.inner).ok THEN 0
         ELSE LET scores == PyPrefix(JsonLoads(match.inner).value, Len(candidates)) IN
              IF scores # << >> /\ MaxOf(scores) = 0 THEN 0 ELSE Len(scores)

\* k distinct candidates
NumberedRecords(k) == [i \in 1..k |-> [id |-> i, test_type |-> <<"K">>]]

PromptResponses ==
    { [raises |-> FALSE, text |-> FormatRatings(r)] : r \in SeqsUpTo(0..1, MaxPromptRatings) }
        \cup { [raises |-> FALSE, text |-> <<"x">>], [raises |-> TRUE, text |-> << >>] }

InitPrompt ==
    /\ config = [GEMINI_API_KEY |-> "secret"]
    /\ disk = NoBundle
    /\ store = NewVectorStore
    /\ retr = NewRetriever(FALSE, TRUE, config)
    /\ inp \in { NumberedRecords(k) : k \in 0..MaxPromptCands }
    /\ out = NoCall
    /\ succeeded = FALSE

RerankLLM ==
    /\ out = NoCall
    /\ \E response \in PromptResponses :
          out' = [op |-> "rerank_llm",
                  response |-> response,
                  prompted |-> Prompted(inp),
                  rated |-> RatedCount(inp, response),
                  ret |-> rerank(retr, inp, [predicted |-> NoPrediction,
                                             response |-> response])]
    /\ UNCHANGED <<config, disk, store, retr, inp, succeeded>>

NextPrompt == RerankLLM

SpecPrompt == InitPrompt /\ [][NextPrompt]_vars

(***************************************************************************)
(* The service (main.py): the globals vector_store and retriever, and the  *)
(* handler recommend of POST /recommend.  In the specification of the      *)
(* service the variable store holds the global vector_store and retr the   *)
(* global retriever (PyNone until assigned), inp the bodies of the         *)
(* requests, and out the progress and the answer of each request.          *)
(***************************************************************************)
\* the parameters load accepts besides self: def load(self, path=None)
LoadParameters == {"path"}

\* a call of load with keyword arguments: a keyword load does not have is a
\* TypeError raised before the body runs
load_with_keywords(st, keywords, bundle, ctor_raises, cfg) ==
    IF ~(keywords \subseteq LoadParameters) THEN Left(TRUE, st)
    ELSE load(st, bundle, ctor_raises, cfg)

\* the query texts a request may carry: empty, blank, and one with words
RequestQueries == {"", " ", "q1"}

\* not request.query or not request.query.strip()
Blank(query) == query \in {"", " "}

\* RecommendationRequest: top_k and top_n are left out (None)
Bodies == { [query |-> q, top_k |-> << >>, top_n |-> << >>] : q \in RequestQueries }

Reqs == 1..NumRequests

\* what the handler leaves: the status of the answer, the two globals, and
\* whether it called load and retrieve
Answered(status, vs, rt, loaded, retrieved) ==
    [status |-> status, vector_store |-> vs, retriever |-> rt,
     loaded |-> loaded, retrieved |-> retrieved]

\* lines 202-243: the query test, retrieve and the formatting of the answer
answer_query(vs, rt, body, loaded, backend) ==
    IF Blank(body.query) THEN Answered(400, vs, rt, loaded, FALSE)
    ELSE LET results == retrieve(rt, vs, body.query, body.top_k, body.top_n,
                                 backend, NoScorer)
         IN  IF results.raised THEN Answered(500, vs, rt, loaded, TRUE)
             ELSE Answered(200, vs, rt, loaded, TRUE)

\* lines 168-200, entered when retriever is None, followed by the rest of
\* the handler when the block completes
lazy_load(vs, rt, body, bundle, ctor_raises, backend, cfg) ==
    IF bundle.index = NoFile THEN Answered(503, vs, rt, FALSE, FALSE)
    ELSE LET left == load_with_keywords(NewVectorStore, {"load_embedding_model"},
                                        bundle, ctor_raises, cfg)
         IN  IF left.raised THEN Answered(503, left.store, rt, TRUE, FALSE)
             ELSE answer_query(left.store, NewRetriever(FALSE, FALSE, cfg),
                               body, TRUE, backend)

\* GET /health: healthy when both globals are set
health_check(vs, rt) ==
    [endpoint |-> "/health", status |-> 200,
     body |-> IF vs = PyNone \/ rt = PyNone THEN "unhealthy" ELSE "healthy"]

\* GET /stats: 503 when vector_store is None, else the sizes of the store,
\* "index.ntotal if vector_store.index else 0" for the index
get_stats(vs) ==
    IF vs = PyNone THEN [endpoint |-> "/stats", status |-> 503, body |-> << >>]
    ELSE [endpoint |-> "/stats", status |-> 200,
          body |-> <<Len(vs.assessments),
                     IF vs.index # PyNone THEN ntotal(vs.index) ELSE 0,
                     vs.dimension>>]

\* GET /setup: "already_setup" when the index file exists; else the import
\* of scrape_all_assessments, a name scraper.py does not define, raises
\* inside the try and the answer is 500, no global having been assigned
run_setup(bundle) ==
    IF bundle.index # NoFile
    THEN [endpoint |-> "/setup", status |-> 200, body |-> "already_setup"]
    ELSE [endpoint |-> "/setup", status |-> 500, body |-> "Setup failed"]

\* before any of the three has been asked
NoProbe == [endpoint |-> "none", status |-> 0, body |-> << >>]

\* the bundles the service may find: none, a complete one, the index file
\* alone
ServiceBundles ==
    { NoBundle,
      Bundle(IndexFile(2), save_json(FirstRecords(2)),
             StoredConfig(MiniLMDimension, DefaultModel, PyBool(FALSE))),
      Bundle(IndexFile(2), NoFile, NoFile) }

\* a request that has not been taken up
Waiting == [pc |-> "waiting", status |-> 0, loaded |-> FALSE, retrieved |-> FALSE,
            first |-> FALSE, ready_at_entry |-> FALSE,
            ctor_raises |-> FALSE, backend_raises |-> FALSE]

InitService ==
    /\ config \in Configs
    /\ disk \in ServiceBundles
    /\ store = PyNone
    /\ retr = PyNone
    /\ inp \in [Reqs -> Bodies]
    /\ out = [op |-> "service", req |-> [r \in Reqs |-> Waiting], probe |-> NoProbe]
    /\ succeeded = FALSE

\* handlers run side by side, as on threads: a request is taken up at any time
EventLoopFree_Threads == TRUE

\* recommend is a coroutine without an await: once the event loop has taken
\* a request up it runs the handler to its end before it takes up another
EventLoopFree == \A r \in Reqs : out.req[r].pc \in {"waiting", "answered"}

\* line 166: the handler starts and tests retriever is None
Enter(r) ==
    /\ out.op = "service" /\ out.req[r].pc = "waiting"
    /\ EventLoopFree
    /\ out' = [out EXCEPT !.req[r].pc = IF retr = PyNone THEN "init" ELSE "query",
                          !.req[r].first = \A o \in Reqs : out.req[o].pc = "waiting",
                          !.req[r].ready_at_entry = succeeded]
    /\ UNCHANGED <<config, disk, store, retr, inp, succeeded>>

\* the rest of the handler, up to its answer
Handle(r) ==
    /\ out.op = "service" /\ out.req[r].pc \in {"init", "query"}
    /\ \E ctor_raises, backend_raises \in BOOLEAN :
         \E backend \in { [raises |-> backend_raises, failed |-> {}] } :
         \E a \in { IF out.req[r].pc = "init"
                     THEN lazy_load(store, retr, inp[r], disk, ctor_raises, backend, config)
                     ELSE answer_query(store, retr, inp[r], FALSE, backend) } :
             /\ store' = a.vector_store
             /\ retr' = a.retriever
             /\ succeeded' = (succeeded \/ (out.req[r].pc = "init" /\ a.retriever # PyNone))
             /\ out' = [out EXCEPT !.req[r] =
                           [@ EXCEPT !.pc = "answered", !.status = a.status,
                                     !.loaded = a.loaded, !.retrieved = a.retrieved,
                                     !.ctor_raises = ctor_raises,
                                     !.backend_raises = backend_raises]]
    /\ UNCHANGED <<config, disk, inp>>

\* the handlers of /health, /stats and /setup: coroutines without an await
\* that assign no global
Health ==
    /\ out.op = "service" /\ EventLoopFree
    /\ out' = [out EXCEPT !.probe = health_check(store, retr)]
    /\ UNCHANGED <<config, disk, store, retr, inp, succeeded>>

Stats ==
    /\ out.op = "service" /\ EventLoopFree
    /\ out' = [out EXCEPT !.probe = get_stats(store)]
    /\ UNCHANGED <<config, disk, store, retr, inp, succeeded>>

Setup ==
    /\ out.op = "service" /\ EventLoopFree
    /\ out' = [out EXCEPT !.probe = run_setup(disk)]
    /\ UNCHANGED <<config, disk, store, retr, inp, succeeded>>

NextService == Health \/ Stats \/ Setup \/ \E r \in Reqs : Enter(r) \/ Handle(r)

SpecService == InitService /\ [][NextService]_vars

(***************************************************************************)
(* Properties of _balance_domains.  They are stated on the input list with *)
(* SelectSeq and counting, not with the loop that computes the buckets.    *)
(***************************************************************************)
Codes(assessment) ==
    IF assessment.test_type = Missing THEN {}
    ELSE { assessment.test_type[i] : i \in DOMAIN assessment.test_type }

IsTechnical(assessment) == Codes(assessment) \cap {"K", "P"} # {}

IsBehavioral(assessment) ==
    Codes(assessment) \cap {"B", "S"} # {} /\ Codes(assessment) \cap {"K", "P"} = {}

IsOther(assessment) == ~IsTechnical(assessment) /\ ~IsBehavioral(assessment)

Occurrences(s, x) == Cardinality({ i \in DOMAIN s : s[i] = x })

\* floor(0.7 * n), on the rationals
Floor07(n) == CHOOSE k \in 0..n : 10 * k <= 7 * n /\ 7 * n < 10 * (k + 1)

Balanced == out.op = "balance"

\* C3: for every input list (any mixture of technical, behavioral and other
\* candidates, all-technical, all-behavioral and the empty list included) the
\* list _balance_domains returns is as long as its input.
C3_BalanceKeepsLength == Balanced => Len(out.result) = Len(inp)

\* C3 witness: an all-technical list longer than its technical quota, and an
\* all-behavioral one, were balanced to their own length.
C3_Witness ==
    /\ Balanced
    /\ Len(inp) >= 3
    /\ \A i \in DOMAIN inp : IsTechnical(inp[i])
    /\ Len(out.result) = Len(inp)

\* C4: the output of _balance_domains is a permutation of its input: every
\* candidate occurs in the output exactly as often as in the input, and nothing
\* that is not in the input occurs in it.
C4_BalanceIsPermutation ==
    Balanced =>
        /\ \A i \in DOMAIN out.result : \E j \in DOMAIN inp : out.result[i] = inp[j]
        /\ \A r \in Records : Occurrences(out.result, r) = Occurrences(inp, r)

\* C4 witness: a list holding one candidate twice and candidates of all three
\* kinds was reordered by the balancing.
C4_Witness ==
    /\ Balanced
    /\ out.result # inp
    /\ \E r \in Records : Occurrences(inp, r) = 2
    /\ \E i, j, k \in DOMAIN inp :
          IsTechnical(inp[i]) /\ IsBehavioral(inp[j]) /\ IsOther(inp[k])

C6_ShortfallFill ==
    Balanced =>
        LET N == Len(inp)
            tech == SelectSeq(inp, IsTechnical)
            beh == SelectSeq(inp, IsBehavioral)
            oth == SelectSeq(inp, IsOther)
            kt == Min(Len(tech), Floor07(N))
            kb == Min(Len(beh), N - Floor07(N))
            ko == Min(Len(oth), N - (kt + kb))
            beyond == SubSeq(tech, Floor07(N) + 1, Len(tech))
                          \o SubSeq(beh, N - Floor07(N) + 1, Len(beh))
        IN  kt + kb < N =>
              /\ Len(out.result) >= kt + kb + ko
              /\ SubSeq(out.result, kt + kb + 1, kt + kb + ko) = SubSeq(oth, 1, ko)
              /\ IF kt + kb + ko < N
                 THEN /\ Len(beyond) >= N - (kt + kb + ko)
                      /\ SubSeq(out.result, kt + kb + ko + 1, Len(out.result))
                            = SubSeq(beyond, 1, N - (kt + kb + ko))
                 ELSE Len(out.result) = kt + kb + ko

\* C6 witness: the picks fell short, a candidate of the other bucket was
\* appended, and the list was completed with a technical candidate beyond the
\* quota.
C6_Witness ==
    /\ Balanced
    /\ Len(inp) = 5
    /\ Len(SelectSeq(inp, IsTechnical)) = 4
    /\ Len(SelectSeq(inp, IsOther)) = 1
    /\ IsOther(inp[1])
    /\ out.result[4] = inp[1]
    /\ out.result[5] = inp[5]

\* C7: _balance_domains puts each candidate in exactly one bucket: technical
\* if its codes include K or P (also when B or S is present), behavioral if
\* they include B or S and neither K nor P, other in every remaining case
\* (a missing or empty test_type included).
C7_Buckets ==
    Balanced =>
        /\ out.buckets.technical = SelectSeq(inp, IsTechnical)
        /\ out.buckets.behavioral = SelectSeq(inp, IsBehavioral)
        /\ out.buckets.other = SelectSeq(inp, IsOther)
        /\ Len(out.buckets.technical) + Len(out.buckets.behavioral)
              + Len(out.buckets.other) = Len(inp)

\* C7 witness: a candidate carrying S and P went to the technical bucket, and
\* candidates with no test_type key, an empty list and an unrecognised code
\* went to the other bucket.
C7_Witness ==
    /\ Balanced
    /\ \E r \in Records :
          /\ {"S", "P"} \subseteq Codes(r)
          /\ \E i \in DOMAIN out.buckets.technical : out.buckets.technical[i] = r
    /\ \E i, j, k \in DOMAIN out.buckets.other :
          /\ out.buckets.other[i].test_type = Missing
          /\ out.buckets.other[j].test_type = << >>
          /\ out.buckets.other[k].test_type = <<"A">>

(***************************************************************************)
(* Properties of rerank.                                                   *)
(***************************************************************************)
Reranked == out.op = "rerank"

NonIncreasing(scores) ==
    \A i \in 1..(Len(scores) - 1) : ~ScoreLess(scores[i], scores[i + 1])

IsPermutation(s, t) ==
    /\ Len(s) = Len(t)
    /\ \A r \in Records : Occurrences(s, r) = Occurrences(t, r)

\* C9: for every scorer strategy (pairwise, generative, none) and every list of
\* N candidates, rerank returns exactly N candidates that are a permutation of
\* the input, with N scores that are non-increasing in the returned order.
C9_RerankPermutation ==
    (Reranked /\ ~out.ret.raised) =>
        /\ Len(out.ret.candidates) = Len(inp)
        /\ IsPermutation(out.ret.candidates, inp)
        /\ Len(out.ret.scores) = Len(inp)
        /\ NonIncreasing(out.ret.scores)

\* the answers on which the generative scorer is to fail open: the call
\* raised, the text holds no bracketed numeric list, the list cannot be
\* parsed, or it holds another number of ratings than there are candidates
FailOpenCase(response, n) ==
    \/ response.raises
    \/ ~ReSearch(response.text).found
    \/ ~JsonLoads(ReSearch(response.text).inner).ok
    \/ Len(JsonLoads(ReSearch(response.text).inner).value) # n

\* C10: the generative scorer fails open: whenever the answer holds no
\* bracketed numeric list, a list with the wrong number of ratings, one that
\* cannot be parsed, or the backend call raises, rerank returns the candidates
\* in their original order with every score 1.0 and raises nothing.
C10_GenerativeFailsOpen ==
    (Reranked /\ retr.use_llm_reranking
              /\ FailOpenCase(out.scorer.response, Len(inp))) =>
        /\ ~out.ret.raised
        /\ out.ret.candidates = inp
        /\ out.ret.scores = Ones(Len(inp))

(***************************************************************************)
(* Properties of retrieve and search.                                      *)
(***************************************************************************)
RetrieveReturned == out.op = "retrieve" /\ ~out.ret.raised

RerankEnabled == retr.use_reranker \/ retr.use_llm_reranking

\* the top_k and top_n in effect during the observed retrieve: the caller's
\* argument, or the configured default where retrieve falls back to it
TopKInEffect == OrDefault(out.top_k, TOP_K_RETRIEVAL)

TopNInEffect == OrDefault(out.top_n, TOP_N_FINAL)

\* what search gave the observed retrieve, and what rerank made of it
Found == search(store, out.query, TopKInEffect, out.backend)

Ranked == rerank(retr, Found.results, out.scorer)

\* C1: with reranking enabled, retrieve(query, top_k, top_n) returns exactly
\* balance(first top_n of rerank(query, search(query, top_k))): rerank gets the
\* whole list search returned, the list is cut to top_n after reranking and
\* before balancing, and balancing is the last step.  top_k and top_n are the
\* values in effect in retrieve (C2 is about the fallback to the defaults).
C1_RetrievePipeline ==
    (RetrieveReturned /\ RerankEnabled) =>
        out.ret.result = balance_domains(PyPrefix(Ranked.candidates, TopNInEffect))

\* C1 witness: a retrieve whose reranking changed the order search gave, whose
\* cut to top_n dropped a candidate, and whose balancing reordered the rest.
C1_Witness ==
    /\ RetrieveReturned /\ RerankEnabled
    /\ Ranked.candidates # Found.results
    /\ Len(Ranked.candidates) > TopNInEffect
    /\ out.ret.result # PyPrefix(Ranked.candidates, TopNInEffect)
    /\ out.ret.result = balance_domains(PyPrefix(Ranked.candidates, TopNInEffect))

\* C2: for every query and every integer top_n >= 0 the caller supplies,
\* retrieve returns at most top_n records; when top_n is not supplied the bound
\* is the configured default top_n_final (10).
C2_AtMostTopN ==
    RetrieveReturned =>
        Len(out.ret.result) <= (IF out.top_n = << >> THEN TOP_N_FINAL ELSE out.top_n[1])

UniqueIds(assessments) ==
    \A i, j \in DOMAIN assessments : assessments[i].id = assessments[j].id => i = j

\* C8: on a built or loaded index whose catalog has unique ids, search(query,
\* top_k) for any top_k >= 1 returns exactly min(top_k, catalog size) (record,
\* score) pairs, with scores non-increasing and no record twice; in particular
\* a top_k larger than the catalog returns every record once and raises no
\* error.  (Stated for a store holding an index and an embedder, and a call
\* during which the embedding backend answers.)
C8_SearchReturnsMin ==
    (/\ out.op = "search"
     /\ store.index # PyNone /\ store.embedding_generator # PyNone
     /\ UniqueIds(store.assessments)
     /\ out.top_k >= 1
     /\ ~out.backend.raises) =>
        /\ ~out.ret.raised
        /\ Len(out.ret.results) = Min(out.top_k, Len(store.assessments))
        /\ Len(out.ret.scores) = Len(out.ret.results)
        /\ NonIncreasing(out.ret.scores)
        /\ UniqueIds(out.ret.results)

(***************************************************************************)
(* Properties of the generative scorer on long lists.                      *)
(***************************************************************************)
\* the positions in xs of the record x
PositionsOf(xs, x) == { p \in DOMAIN xs : xs[p] = x }

\* C11: with the generative strategy and more than 10 candidates only the
\* first 10 are enumerated in the prompt and scored: whatever the model
\* answers, no candidate at input position 11 or later gets a rating of the
\* model, or is moved relative to the others.
C11_OnlyFirstTenScored ==
    (out.op = "rerank_llm" /\ Len(inp) > PromptLimit) =>
        /\ out.prompted = SubSeq(inp, 1, PromptLimit)
        /\ out.rated <= PromptLimit
        /\ \A i \in (PromptLimit + 1)..Len(inp) : \A j \in 1..Len(inp) :
             \A p \in PositionsOf(out.ret.candidates, inp[i]) :
               \A q \in PositionsOf(out.ret.candidates, inp[j]) :
                 (j < i => q < p) /\ (j > i => q > p)

(***************************************************************************)
(* Properties of the generative scorer's normalisation.                    *)
(***************************************************************************)
\* the observed rerank was the generative strategy's, and the model's answer
\* held a bracketed list that parsed
ParsedRatings ==
    /\ Reranked /\ retr.use_llm_reranking
    /\ ~out.scorer.response.raises
    /\ ReSearch(out.scorer.response.text).found
    /\ JsonLoads(ReSearch(out.scorer.response.text).inner).ok

\* the ratings of the answer that are used: one per candidate, in input order
UsedRatings ==
    PyPrefix(JsonLoads(ReSearch(out.scorer.response.text).inner).value, Len(inp))

MaxUsedRating == IF UsedRatings = << >> THEN 1 ELSE MaxOf(UsedRatings)

\* C12: for every rating list that parsed, also one whose maximum rating is 0,
\* generative rerank returns without raising, and each returned score is the
\* candidate's rating divided by the maximum rating, so that the first
\* returned score is 1 whenever the maximum is positive.  (The maximum is that
\* of the ratings used; the quotient is stated where the maximum is positive.)
C12_NormalisedWithoutRaising ==
    ParsedRatings =>
        /\ ~out.ret.raised
        /\ MaxUsedRating > 0 =>
             /\ \A p \in DOMAIN out.ret.candidates : \A i \in DOMAIN UsedRatings :
                  out.ret.candidates[p] = inp[i] =>
                      ScoreEq(out.ret.scores[p], Score(UsedRatings[i], MaxUsedRating))
             /\ Len(out.ret.scores) = Len(out.ret.candidates)
             /\ out.ret.scores # << >> => ScoreEq(out.ret.scores[1], One)

\* C12 witness: a parsed list of two ratings for two candidates whose maximum
\* is 0, answered without raising.
C12_Witness ==
    /\ ParsedRatings
    /\ Len(UsedRatings) = 2 /\ MaxUsedRating = 0
    /\ ~out.ret.raised

(***************************************************************************)
(* Properties of the pairwise strategy.                                    *)
(***************************************************************************)
\* the observed rerank was the cross-encoder's and returned
PairwiseReturned ==
    /\ Reranked /\ ~retr.use_llm_reranking /\ retr.reranker
    /\ ~out.ret.raised

\* the input position of the candidate returned at position p (the candidates
\* of one call are distinct)
InputIndex(p) == CHOOSE i \in DOMAIN inp : inp[i] = out.ret.candidates[p]

\* C13: pairwise (cross-encoder) rerank returns the candidates sorted by
\* descending score, two candidates of equal score keeping their input order,
\* and the returned score list is the scores in that same order.
C13_PairwiseStableSort ==
    PairwiseReturned =>
        /\ IsPermutation(out.ret.candidates, inp)
        /\ Len(out.ret.scores) = Len(inp)
        /\ \A p \in DOMAIN out.ret.candidates :
             out.ret.scores[p] = Score(out.scorer.predicted.scores[InputIndex(p)], 1)
        /\ \A p, q \in DOMAIN out.ret.candidates :
             p < q =>
                /\ ~ScoreLess(out.ret.scores[p], out.ret.scores[q])
                /\ ScoreEq(out.ret.scores[p], out.ret.scores[q]) =>
                       InputIndex(p) < InputIndex(q)

\* C13 witness: three candidates, the second scored highest and the first and
\* third scored equal: the second comes first, the tie keeps its input order.
C13_Witness ==
    /\ PairwiseReturned
    /\ Len(inp) = 3
    /\ out.scorer.predicted.scores[1] = out.scorer.predicted.scores[3]
    /\ out.scorer.predicted.scores[2] > out.scorer.predicted.scores[1]
    /\ out.ret.candidates = <<inp[2], inp[1], inp[3]>>

(***************************************************************************)
(* Properties of retrieve without a scorer, and on no candidates.          *)
(***************************************************************************)
\* C14: when neither the cross-encoder nor the generative scorer is enabled
\* the pipeline skips reranking: the candidates passed to truncation and
\* balancing are in exactly the order search returned, and every candidate
\* carries the uniform score 1.0.
C14_NoScorerKeepsSearchOrder ==
    (RetrieveReturned /\ ~RerankEnabled /\ Found.results # << >>) =>
        /\ out.staged.candidates = Found.results
        /\ out.ret.result = balance_domains(PyPrefix(Found.results, TopNInEffect))
        /\ out.staged.scores = Ones(Len(Found.results))

\* C15: with an empty catalog (an index built or loaded with zero records)
\* retrieve returns [] for any query and any top_k / top_n and raises no
\* error; more generally, whenever search yields no candidates retrieve
\* returns [] without invoking rerank or balance.  (A store whose catalog is
\* empty after a build or a load is one that holds an embedder and no record.)
C15_EmptyCatalogReturnsEmpty ==
    /\ (out.op = "retrieve" /\ store.embedding_generator # PyNone
                            /\ store.assessments = << >>) =>
           out.ret = Retrieved(<< >>)
    /\ (out.op = "retrieve" /\ ~Found.raised /\ Found.results = << >>) =>
           /\ out.ret = Retrieved(<< >>)
           /\ out.staged = Returned(<< >>, << >>)

(***************************************************************************)
(* Properties of search on a store that was never built or loaded.         *)
(***************************************************************************)
IndexNotBuilt == "ValueError: Index not built"

\* C16: search on a store on which neither build_index nor load has succeeded
\* fails with the index-not-built error, without invoking the embedder and
\* leaving the store's state unchanged.
C16_SearchBeforeBuild ==
    (out.op = "search" /\ ~succeeded) =>
        /\ out.ret.raised /\ out.ret.error = IndexNotBuilt
        /\ ~out.encoded
        /\ store = out.before

(***************************************************************************)
(* Properties of retrieve under failures of its backends.                  *)
(***************************************************************************)
\* C17: for any query against a built or loaded index retrieve returns a list
\* (possibly empty) and never raises, whatever fails in the embedding backend
\* or in the relevance scorer (cross-encoder or generative); only an absent
\* index or a corrupt bundle ever produces an error.  (Stated for a store on
\* which a build or a load has succeeded and whose index, records and
\* embedder agree.)
C17_RetrieveNeverRaises ==
    (out.op = "retrieve" /\ succeeded
        /\ store.index # PyNone /\ store.embedding_generator # PyNone
        /\ store.index.d = store.embedding_generator.dimension
        /\ ntotal(store.index) = Len(store.assessments)) =>
            ~out.ret.raised

(***************************************************************************)
(* Properties of the service.                                              *)
(***************************************************************************)
AnsweredReqs == IF out.op = "service"
                THEN { r \in Reqs : out.req[r].pc = "answered" } ELSE {}

\* can load make a store of the bundle, the embedder's model loading or not?
Loadable(bundle, ctor_raises) == ~load(NewVectorStore, bundle, ctor_raises, config).raised

\* C18: the service classifies failures distinctly: a /recommend request that
\* fails because the index bundle is absent or cannot be loaded is answered
\* 503, a request rejected for an empty or whitespace-only query is answered
\* 400 without a call of retrieve, and neither condition is reported with the
\* other's status or with 500.  (The bundle matters to the requests that find
\* the service not yet initialized.)
C18_DistinctFailureStatus ==
    \A r \in AnsweredReqs :
        /\ (~out.req[r].ready_at_entry /\ ~Loadable(disk, out.req[r].ctor_raises)) =>
               out.req[r].status = 503
        /\ (Blank(inp[r].query)
              /\ (out.req[r].ready_at_entry \/ Loadable(disk, out.req[r].ctor_raises))) =>
               (out.req[r].status = 400 /\ ~out.req[r].retrieved)

CompleteBundle ==
    /\ disk.index # NoFile /\ disk.assessments # NoFile /\ disk.config # NoFile
    /\ ntotal(disk.index) = Len(load_json(disk.assessments))
    /\ disk.index.d = disk.config.dimension

\* C20: with a complete, consistent bundle on disk the first /recommend
\* request with a non-empty query loads the bundle (without instantiating the
\* embedding model at load time), initializes the retriever and is answered
\* successfully, not 503.  (Stated for a request during which no backend
\* fails; the clause in parentheses is about a load that completes.)
C20_FirstRequestSucceeds ==
    \A r \in AnsweredReqs :
        (/\ out.req[r].first /\ ~Blank(inp[r].query)
         /\ CompleteBundle
         /\ ~out.req[r].ctor_raises /\ ~out.req[r].backend_raises) =>
            /\ out.req[r].status = 200
            /\ out.req[r].loaded
            /\ store # PyNone /\ retr # PyNone

(***************************************************************************)
(* Frame properties of the queries.                                        *)
(***************************************************************************)
\* C21: no query operation mutates the index: across every search and every
\* retrieve (with the rerank and the balancing it runs), from every state a
\* build_index or load can leave, the store's vectors, its ordered record
\* list with each record's fields, its dimension and its embedder stay what
\* they were.
C21_QueriesLeaveStore ==
    [][out'.op \in {"search", "retrieve"} =>
          /\ store'.index = store.index
          /\ store'.assessments = store.assessments
          /\ store'.dimension = store.dimension
          /\ store'.embedding_generator = store.embedding_generator]_vars

\* C21 witness: a retrieve that reranked the candidates of a built store into
\* another order and returned them, the store being what it was before.
C21_Witness ==
    /\ RetrieveReturned /\ RerankEnabled
    /\ succeeded
    /\ out.ret.result # << >>
    /\ Ranked.candidates # Found.results
    /\ store.assessments # << >> /\ store.index # PyNone

(***************************************************************************)
(* Balancing twice.                                                        *)
(***************************************************************************)
\* C30: _balance_domains is idempotent: balancing the list it returned
\* returns that list again, balance(balance(L)) = balance(L), for every list
\* L of records.
C30_BalanceIdempotent ==
    out.op = "balance" => out.again = out.result

\* C30 witness: a list that the first balancing reordered, with records of
\* all three buckets, the leftover fill having run.
C30_Witness ==
    /\ out.op = "balance"
    /\ out.result # inp
    /\ out.again = out.result
    /\ out.buckets.other # << >>
    /\ Len(out.buckets.behavioral) > TargetBehavioral(Len(inp))
    /\ out.buckets.technical # << >>

(***************************************************************************)
(* Properties of the bundle: save and load.                                *)
(***************************************************************************)
\* the top_k values a search is probed with
ProbedTopK == (1..MaxTop) \cup {TOP_K_RETRIEVAL}

\* the store answers every search as the other store does: the same records
\* in the same order with the same scores, or the same error
SameAnswers(st, other) ==
    \A query \in Queries, top_k \in ProbedTopK :
        \A backend \in StoreBackends(other, 1) \cup StoreBackends(st, 1) :
            search(st, query, top_k, backend) = search(other, query, top_k, backend)

\* a load has just returned on the bundle that a store saved straight after
\* its build_index returned
RoundTripDone ==
    /\ out.op = "load" /\ ~out.raised
    /\ inp.saved # PyNone /\ inp.built

\* C24: round trip: for any catalog, the store obtained by build_index, save
\* and load into a fresh VectorStore answers every search(query, top_k) with
\* the same ordered record ids and the same scores as the store that was
\* saved.
C24_RoundTrip ==
    RoundTripDone => SameAnswers(store, inp.saved)

\* the bundle on disk has its three artifacts
BundleWhole ==
    /\ disk.index # NoFile /\ disk.assessments # NoFile
    /\ disk.config \notin {NoFile, EmptyFile}

\* the artifacts agree: as many vectors as records, the stored dimension the
\* index's
BundleConsistent ==
    /\ BundleWhole
    /\ ntotal(disk.index) = Len(load_json(disk.assessments))
    /\ disk.index.d = disk.config.dimension

\* C25: load fails with an error whenever the bundle misses one of its three
\* artifacts (index, record metadata, embedder config) or the artifacts are
\* inconsistent (the number of vectors differs from the number of records, or
\* the stored dimension from the index's): no such bundle makes load return.
C25_LoadRejectsBadBundle ==
    (out.op = "load" /\ ~BundleConsistent) => out.raised

\* C26: after any build_index or load that returned, store.dimension, the
\* dimension of the index and embedding_generator.dimension are all equal
\* (so every query vector has the index's dimension), also when the bundle
\* was saved with the remote-API embedder and is loaded in a process where no
\* credential is configured.
C26_DimensionsAgree ==
    (out.op \in {"build_index", "load"} /\ ~out.raised) =>
        /\ store.dimension = store.index.d
        /\ store.embedding_generator.dimension = store.index.d

\* C27: a load that fails at any step (a file missing or unreadable, the
\* embedder's construction failing) leaves the store's index, assessments,
\* dimension and embedding_generator exactly as they were before the call, and
\* never leaves a store whose index is set while its embedder is not.
C27_FailedLoadLeavesStore ==
    [][(out'.op = "load" /\ out'.raised) =>
          /\ store' = store
          /\ (store'.index # PyNone => store'.embedding_generator # PyNone)]_vars

\* C29: the embedder configuration that save writes records the model name and
\* a boolean telling whether the remote-API backend was used; whatever the
\* constructor arguments and the configured credential, the value of the API
\* credential is not written into the bundle.
C29_NoCredentialInBundle ==
    (out.op = "save" /\ ~out.raised) =>
        /\ disk.config.use_gemini \in {PyBool(TRUE), PyBool(FALSE)}
        /\ Truthy(config.GEMINI_API_KEY) =>
               disk.config.use_gemini # PyStr(config.GEMINI_API_KEY)

(***************************************************************************)
(* Properties of encode.                                                   *)
(***************************************************************************)
\* the backend failed during the call: the model raised, or the remote API
\* raised for some text
BackendFailed == out.backend.raises \/ out.backend.failed # {}

\* C23: embedding a batch of texts returns exactly one vector per input text
\* in input order, whichever backend is configured; when the backend fails
\* for some texts, exactly those positions hold the zero vector, all other
\* positions hold their embeddings, and the call does not abort.
C23_OneVectorPerText ==
    out.op = "encode" =>
        /\ ~out.ret.raised
        /\ Len(out.ret.vectors) = Len(inp)
        /\ \A i \in 1..Len(inp) :
             out.ret.vectors[i] =
                 IF i \in out.backend.failed THEN Vec(out.gen.dimension, "zero")
                 ELSE Vec(out.gen.dimension, inp[i])

(***************************************************************************)
(* Properties of the globals of the service.                               *)
(***************************************************************************)
\* C28: in every reachable state of the service the globals vector_store and
\* retriever are either both unset or both set, vector_store then holding a
\* loaded index; a failed lazy initialization leaves both unset; and /health
\* reports healthy exactly when /stats is served (and /recommend can be) from
\* a loaded index.
C28_GlobalsSetTogether ==
    out.op = "service" =>
        /\ (store = PyNone) <=> (retr = PyNone)
        /\ store # PyNone => store.index # PyNone
        /\ \A r \in Reqs :
             (out.req[r].pc = "answered" /\ out.req[r].loaded /\ out.req[r].status = 503) =>
                 (store = PyNone /\ retr = PyNone)
        /\ out.probe.endpoint = "/stats" =>
               ((out.probe.status = 200) <=> (health_check(store, retr).body = "healthy"))

(***************************************************************************)
(* Termination of retrieve.                                                *)
(***************************************************************************)
\* C22: every retrieve call eventually returns: if the generative scorer or
\* the remote embedding backend never responds, the call times out after a
\* bounded wait and falls back instead of blocking forever.
C22_RetrieveReturns ==
    (out.pc = "embedding") ~> (out.pc = "returned")

=============================================================================
